---- MODULE Spec2Model ----
(***************************************************************************)
(* A model of src/util/FileUtilities.py (class FileUtilities).             *)
(*                                                                         *)
(* File names are sequences of one-character strings, so that split,       *)
(* rsplit, pathlib's stem and the regular expressions of extract_version   *)
(* are computed character by character, as the Python code computes them.  *)
(*                                                                         *)
(* The destination folder is a directory that may or may not exist and the *)
(* set of file names in it.  The metadata store is the table behind        *)
(* FileMetadataDatabaseUtility.get_all_file_names_and_categories().        *)
(***************************************************************************)
EXTENDS Integers, Sequences, FiniteSets, TLC

(***************************************************************************)
(* Bounds of the model.                                                    *)
(***************************************************************************)
\* longest list of (name, category) records a metadata query returns
MaxRecords == 3

\* largest category of a record returned by a metadata query
MaxCategory == 2

\* uploads stop once the store holds a category this large
MaxUploadCategory == 3

\* longest filename handed to extract_version
MaxLen == 4

\* records in the store when the concurrent uploads start
MaxSeed == 2

(***************************************************************************)
(* Program constants.                                                      *)
(***************************************************************************)
\* status_code=500 of every HTTPException the class raises
InternalError == 500

(***************************************************************************)
(* Inputs.                                                                 *)
(***************************************************************************)
\* "a", "a.p", "a.1.p" share the stem before the first "."; "b.p" does not
FileNames ==
    { <<"a">>, <<"a", ".", "p">>, <<"a", ".", "1", ".", "p">>, <<"b", ".", "p">> }

\* the names of the records a metadata query returns
RecordNames == { <<"a">>, <<"a", ".", "p">>, <<"b", ".", "p">> }

Categories == 1..MaxCategory

FileRecords == [name : RecordNames, category : Categories]

RecordLists == UNION { [1..n -> FileRecords] : n \in 0..MaxRecords }

\* the characters of the filenames handed to extract_version
VersionChars == { "a", "A", ".", "1", "2", " ", "\n" }

VersionNames == UNION { [1..n -> VersionChars] : n \in 0..MaxLen }

Digits == { "0", "1", "2", "3", "4", "5", "6", "7", "8", "9" }

\* the characters \s matches
Whitespace == { " ", "\t", "\n", "\r", "\f" }

Procs == { 1, 2 }

VARIABLES
    folder,     \* [exists, files]: the destination folder on disk
    store,      \* the metadata store: a set of [name, category], one per name
    call,       \* the last completed call of a public method and its outcome
    pc,         \* per uploader: "idle", "queried", "returned", "done"
    upName,     \* per uploader: the filename being uploaded
    snap,       \* per uploader: the records its metadata query returned
    ret         \* per uploader: what list_versioned_files returned

vars == << folder, store, call, pc, upName, snap, ret >>

(***************************************************************************)
(* Outcomes of a call.                                                     *)
(***************************************************************************)
Return(v) == [kind |-> "return", type |-> "", status |-> 0, value |-> v]

\* raise HTTPException(status_code=500, detail=...)
RaiseHTTP == [kind |-> "raise", type |-> "HTTPException", status |-> InternalError, value |-> <<>>]

\* an exception of the standard library (OSError, TypeError, ...) or of the
\* database driver
RaiseOther == [kind |-> "raise", type |-> "Exception", status |-> 0, value |-> <<>>]

(***************************************************************************)
(* String helpers.                                                         *)
(***************************************************************************)
SetMax(S) == CHOOSE x \in S : \A y \in S : y <= x

SetMin(S) == CHOOSE x \in S : \A y \in S : x <= y

DotsOf(name) == { i \in 1..Len(name) : name[i] = "." }

\* name.split('.')[0]
FirstDotStem(name) ==
    IF DotsOf(name) = {} THEN name
    ELSE SubSeq(name, 1, SetMin(DotsOf(name)) - 1)

\* name.rsplit('.', 1)[0]
RSplitLast(name) ==
    IF DotsOf(name) = {} THEN name
    ELSE SubSeq(name, 1, SetMax(DotsOf(name)) - 1)

\* pathlib.Path(name).stem of a name without separators: the name up to its
\* last ".", unless that "." is the first or the last character
PathStem(name) ==
    IF DotsOf(name) = {} THEN name
    ELSE LET j == SetMax(DotsOf(name))
         IN  IF 1 < j /\ j < Len(name) THEN SubSeq(name, 1, j - 1) ELSE name

LowerChar(c) == IF c = "A" THEN "a" ELSE c

\* str.lower()
Lower(s) == [i \in 1..Len(s) |-> LowerChar(s[i])]

(***************************************************************************)
(* list_versioned_files                                                    *)
(***************************************************************************)
\* file_dict[name] = category: a dict keeps the position of a key's first
\* insertion and the value of its last
DictSet(d, name, category) ==
    IF \E i \in 1..Len(d) : d[i].name = name
    THEN [i \in 1..Len(d) |->
            IF d[i].name = name THEN [name |-> name, category |-> category] ELSE d[i]]
    ELSE Append(d, [name |-> name, category |-> category])

RECURSIVE FileDictUpTo(_, _)
FileDictUpTo(file_records, n) ==
    IF n = 0 THEN <<>>
    ELSE DictSet(FileDictUpTo(file_records, n - 1),
                 file_records[n].name, file_records[n].category)

\* {name: category for name, category in file_records}
FileDict(file_records) == FileDictUpTo(file_records, Len(file_records))

\* the slip of leaving file_name's own entry in file_dict
DictKeep(d, file_name) == d

\* if file_name in file_dict.keys(): file_dict.pop(file_name)
DictPop(d, file_name) == SelectSeq(d, LAMBDA e : e.name # file_name)

\* the slip of numbering a new family by the number of entries
DefaultCategoryCount(d) == Len(d) + 1

\* the slip of forgetting the + 1
DefaultCategoryNoIncrement(d) == SetMax({ d[i].category : i \in 1..Len(d) } \cup {0})

\* max(list(file_dict.values()), default=0) + 1
DefaultCategory(d) == SetMax({ d[i].category : i \in 1..Len(d) } \cup {0}) + 1

\* the slip of splitting at the last "." (rsplit) instead of the first
SameFamilyLastDot(file_name, name) == RSplitLast(file_name) = RSplitLast(name)

\* the slip of taking the last segment, split('.')[-1], instead of the first
SameFamilyLastSegment(file_name, name) ==
    LET last(s) == IF DotsOf(s) = {} THEN s
                   ELSE SubSeq(s, SetMax(DotsOf(s)) + 1, Len(s))
    IN  last(file_name) = last(name)

\* file_name_with_out_ext == name.split('.')[0]
SameFamily(file_name, name) == FirstDotStem(file_name) = FirstDotStem(name)

\* the slip of keeping the category of the first match instead of the last
RECURSIVE ScanFirstWins(_, _, _)
ScanFirstWins(file_name, d, n) ==
    IF n = 0 THEN [names |-> <<>>, category |-> SetMax({ d[i].category : i \in 1..Len(d) } \cup {0}) + 1]
    ELSE LET before == ScanFirstWins(file_name, d, n - 1)
         IN  IF FirstDotStem(file_name) = FirstDotStem(d[n].name)
             THEN [names |-> Append(before.names, d[n].name),
                   category |-> IF before.names = <<>> THEN d[n].category
                                ELSE before.category]
             ELSE before

\* the loop over file_dict.items(): [names, category] after the first n items
RECURSIVE ScanUpTo(_, _, _)
ScanUpTo(file_name, d, n) ==
    IF n = 0 THEN [names |-> <<>>, category |-> DefaultCategory(d)]
    ELSE LET before == ScanUpTo(file_name, d, n - 1)
         IN  IF SameFamily(file_name, d[n].name)
             THEN [names |-> Append(before.names, d[n].name), category |-> d[n].category]
             ELSE before

Scan(file_name, d) == ScanUpTo(file_name, d, Len(d))

\* __get_created_and_modified_dates: os.stat fails for a file that is not in
\* the folder, and the failure is raised as an HTTPException.  The dates
\* themselves are not modelled.
GetCreatedAndModifiedDates(name, dir) ==
    IF dir.exists /\ name \in dir.files
    THEN Return([file_name |-> name])
    ELSE RaiseHTTP

\* the first component of list_versioned_files' result: None, or the list
NoneValue == [isNone |-> TRUE, list |-> <<>>]

ListValue(l) == [isNone |-> FALSE, list |-> l]

\* what list_versioned_files returns when names is empty
NoSiblings == NoneValue

\* lines 194-223, given the records the metadata query returned
VersionedFilesOf(file_name, file_records, dir) ==
    LET file_dict == DictPop(FileDict(file_records), file_name)
        scan      == Scan(file_name, file_dict)
        infos     == [i \in 1..Len(scan.names) |->
                        GetCreatedAndModifiedDates(scan.names[i], dir)]
    IN  IF scan.names # <<>>
        THEN IF \E i \in 1..Len(infos) : infos[i].kind = "raise"
             THEN RaiseHTTP   \* except Exception: raise HTTPException(500)
             ELSE Return([first    |-> ListValue([i \in 1..Len(infos) |-> infos[i].value]),
                          category |-> scan.category])
        ELSE Return([first |-> NoSiblings, category |-> scan.category])

\* the outcomes of get_all_file_names_and_categories(), which is called
\* outside the try block: what it raises reaches the caller as it is
QueryOutcomes == { "ok", "HTTPException", "Exception" }

ListVersionedFilesResult(file_name, query, file_records, dir) ==
    IF query = "HTTPException" THEN RaiseHTTP
    ELSE IF query = "Exception" THEN RaiseOther
    ELSE VersionedFilesOf(file_name, file_records, dir)

(***************************************************************************)
(* has_file_in_destination_folder                                          *)
(***************************************************************************)
\* the slip of comparing the text before the first "." of both names
SearchMatchesFirstDot(name, file_name) ==
    FirstDotStem(name) = FirstDotStem(file_name) \/ name = file_name

\* (pathlib.Path(name).stem == file_name) | (name == file_name)
SearchMatches(name, file_name) == PathStem(name) = file_name \/ name = file_name

\* __search_file: os.listdir is called before the try block
SearchFile(file_name, dir) ==
    IF ~dir.exists THEN RaiseOther
    ELSE Return({ name \in dir.files : SearchMatches(name, file_name) })

HasFileResult(filename, dir) ==
    LET names == SearchFile(filename, dir)
    IN  IF names.kind = "raise" THEN names
        ELSE IF Cardinality(names.value) = 0 THEN Return("None")
        ELSE Return("already exists")

(***************************************************************************)
(* The public methods as actions (the specification Spec).                 *)
(***************************************************************************)
NoCall == [op |-> "none"]

Idle == [p \in Procs |-> "idle"]

NoName == [p \in Procs |-> <<>>]

NoSnap == [p \in Procs |-> [records |-> {}, after |-> {}]]

NoRet == [p \in Procs |-> Return(<<>>)]

Init ==
    /\ folder \in [exists : BOOLEAN, files : {{}}]
    /\ store = {}
    /\ call = NoCall
    /\ pc = Idle
    /\ upName = NoName
    /\ snap = NoSnap
    /\ ret = NoRet

ListVersionedFiles ==
    /\ call = NoCall
    /\ \E file_name \in FileNames, query \in QueryOutcomes, file_records \in RecordLists :
        /\ query # "ok" => file_records = <<>>
        /\ call' = [op |-> "list_versioned_files", file_name |-> file_name,
                    query |-> query, records |-> file_records, folder |-> folder,
                    result |-> ListVersionedFilesResult(file_name, query, file_records, folder)]
        /\ UNCHANGED << folder, store, pc, upName, snap, ret >>

HasFileInDestinationFolder ==
    /\ call = NoCall
    /\ \E filename \in FileNames :
        /\ call' = [op |-> "has_file_in_destination_folder", file_name |-> filename,
                    folder |-> folder, result |-> HasFileResult(filename, folder)]
        /\ UNCHANGED << folder, store, pc, upName, snap, ret >>

\* save_file_in_destination_folder: open(file_path, 'wb') and the copy are
\* inside the try block
SaveFileInDestinationFolder ==
    /\ call = NoCall
    /\ \E name \in FileNames, io_ok \in BOOLEAN :
        LET ok == folder.exists /\ io_ok
        IN  /\ folder' = IF ok THEN [folder EXCEPT !.files = @ \cup {name}] ELSE folder
            /\ call' = [op |-> "save_file_in_destination_folder", file_name |-> name,
                        folder |-> folder,
                        result |-> IF ok THEN Return("None") ELSE RaiseHTTP]
            /\ UNCHANGED << store, pc, upName, snap, ret >>

\* remove_file: os.path.exists and os.remove are inside the try block
RemoveFile ==
    /\ call = NoCall
    /\ \E file_name \in FileNames, io_ok \in BOOLEAN :
        LET there == folder.exists /\ file_name \in folder.files
        IN  /\ folder' = IF there /\ io_ok
                         THEN [folder EXCEPT !.files = @ \ {file_name}] ELSE folder
            /\ call' = [op |-> "remove_file", file_name |-> file_name, folder |-> folder,
                        result |-> IF there /\ ~io_ok THEN RaiseHTTP ELSE Return("None")]
            /\ UNCHANGED << store, pc, upName, snap, ret >>

\* get_metadata: os.stat and the hashing of the file are inside the try block
GetMetadata ==
    /\ call = NoCall
    /\ \E file_name \in FileNames, readable \in BOOLEAN :
        LET there == folder.exists /\ file_name \in folder.files
        IN  /\ call' = [op |-> "get_metadata", file_name |-> file_name, folder |-> folder,
                        result |-> IF there /\ readable
                                   THEN Return([file_name |-> file_name])
                                   ELSE RaiseHTTP]
            /\ UNCHANGED << folder, store, pc, upName, snap, ret >>

\* get_dates returns what __get_created_and_modified_dates returns or raises
GetDates ==
    /\ call = NoCall
    /\ \E file_name \in FileNames :
        /\ call' = [op |-> "get_dates", file_name |-> file_name, folder |-> folder,
                    result |-> GetCreatedAndModifiedDates(file_name, folder)]
        /\ UNCHANGED << folder, store, pc, upName, snap, ret >>

\* the outcome reaches the caller, which may call again
Respond ==
    /\ call # NoCall
    /\ call' = NoCall
    /\ UNCHANGED << folder, store, pc, upName, snap, ret >>

Next ==
    \/ Respond
    \/ HasFileInDestinationFolder
    \/ ListVersionedFiles
    \/ SaveFileInDestinationFolder
    \/ RemoveFile
    \/ GetMetadata
    \/ GetDates

Spec == Init /\ [][Next]_vars

(***************************************************************************)
(* extract_version (the specification SpecVersion).                        *)
(***************************************************************************)
\* where "$" matches in s: at the end, and before a newline that ends s
EndsOf(s) ==
    {Len(s)} \cup (IF Len(s) >= 1 /\ s[Len(s)] = "\n" THEN {Len(s) - 1} ELSE {})

\* t matches \d+(\.\d+)+ as a whole
IsDottedNumber(t) ==
    /\ Len(t) >= 3
    /\ \A i \in 1..Len(t) : t[i] \in Digits \cup {"."}
    /\ t[1] \in Digits /\ t[Len(t)] \in Digits
    /\ \E i \in 1..Len(t) : t[i] = "."
    /\ \A i \in 1..(Len(t) - 1) : ~(t[i] = "." /\ t[i + 1] = ".")

\* re.search(r'(\d+(\.\d+)+)$', s): group(1) of the leftmost match, or None
SearchDotted(s) ==
    LET at == { p \in 1..Len(s) : \E e \in EndsOf(s) : IsDottedNumber(SubSeq(s, p, e)) }
    IN  IF at = {} THEN NoneValue
        ELSE LET p == SetMin(at)
                 e == CHOOSE x \in EndsOf(s) : IsDottedNumber(SubSeq(s, p, x))
             IN  ListValue(SubSeq(s, p, e))

\* re.search(r'[\s.](\d+)$', s): group(1) of the leftmost match, or None
SearchSeparated(s) ==
    LET ok(p, e) == /\ s[p] \in Whitespace \cup {"."}
                    /\ e >= p + 1
                    /\ \A i \in (p + 1)..e : s[i] \in Digits
        at == { p \in 1..Len(s) : \E e \in EndsOf(s) : ok(p, e) }
    IN  IF at = {} THEN NoneValue
        ELSE LET p == SetMin(at)
                 e == CHOOSE x \in EndsOf(s) : ok(p, x)
             IN  ListValue(SubSeq(s, p + 1, e))

ExtractVersionOf(filename) ==
    LET name_without_ext == Lower(RSplitLast(filename))
        dotted           == SearchDotted(name_without_ext)
        match            == IF ~dotted.isNone THEN dotted
                            ELSE SearchSeparated(name_without_ext)
    IN  IF ~match.isNone THEN match.list ELSE <<"0">>

ExtractVersion ==
    /\ call = NoCall
    /\ \E filename \in VersionNames :
        /\ call' = [op |-> "extract_version", file_name |-> filename,
                    result |-> Return(ExtractVersionOf(filename))]
        /\ UNCHANGED << folder, store, pc, upName, snap, ret >>

NextVersion == ExtractVersion \/ Respond

SpecVersion == Init /\ [][NextVersion]_vars

(***************************************************************************)
(* Uploads (the specifications SpecSeq and SpecConc).  An upload saves the *)
(* file, calls list_versioned_files and records the file in the metadata   *)
(* store under its name with the category returned.  The code that records *)
(* it is not part of FileUtilities.py.                                     *)
(***************************************************************************)
\* "c.p" is a third family
UploadNames == FileNames \cup { <<"c", ".", "p">> }

\* the rows of the store in any order: the query states no order
QueryResults(st) ==
    { rows \in [1..Cardinality(st) -> st] :
        \A i, j \in 1..Cardinality(st) : i # j => rows[i] # rows[j] }

\* the file is recorded under its name with the category returned
Recorded(st, name, category) ==
    { r \in st : r.name # name } \cup { [name |-> name, category |-> category] }

NamesOf(st) == { r.name : r \in st }

InitUploads ==
    /\ folder = [exists |-> TRUE, files |-> {}]
    /\ store = {}
    /\ call = NoCall
    /\ pc = Idle
    /\ upName = NoName
    /\ snap = NoSnap
    /\ ret = NoRet

\* one upload from its query to its record, with no other upload in between
UploadOf(file_name, file_records) ==
    LET dir    == [folder EXCEPT !.files = @ \cup {file_name}]
        result == ListVersionedFilesResult(file_name, "ok", file_records, dir)
    IN  /\ result.kind = "return"
        /\ result.value.category <= MaxUploadCategory
        /\ folder' = dir
        /\ store' = Recorded(store, file_name, result.value.category)
        /\ call' = [op |-> "upload", file_name |-> file_name,
                    known |-> file_name \in NamesOf(store), result |-> result]
        /\ UNCHANGED << pc, upName, snap, ret >>

\* strictly sequential uploads
Upload ==
    \E file_name \in UploadNames, file_records \in QueryResults(store) :
        UploadOf(file_name, file_records)

SpecSeq == InitUploads /\ [][Upload]_vars

\* the uploads that filled the store before the concurrent ones start
Seed ==
    /\ \A p \in Procs : pc[p] = "idle"
    /\ Cardinality(store) < MaxSeed
    /\ \E file_name \in UploadNames, file_records \in QueryResults(store) :
        UploadOf(file_name, file_records)

\* line 192: the uploader saves its file and reads the metadata store
Query(p) ==
    /\ pc[p] = "idle"
    /\ \E file_name \in UploadNames :
        /\ upName' = [upName EXCEPT ![p] = file_name]
        /\ folder' = [folder EXCEPT !.files = @ \cup {file_name}]
    /\ snap' = [snap EXCEPT ![p] = [records |-> store,
                                    after   |-> { q \in Procs : pc[q] = "done" }]]
    /\ pc' = [pc EXCEPT ![p] = "queried"]
    /\ UNCHANGED << store, call, ret >>

\* lines 194-223: the rest of list_versioned_files, on the rows it read
Compute(p) ==
    /\ pc[p] = "queried"
    /\ \E file_records \in QueryResults(snap[p].records) :
        ret' = [ret EXCEPT ![p] = VersionedFilesOf(upName[p], file_records, folder)]
    /\ pc' = [pc EXCEPT ![p] = "returned"]
    /\ UNCHANGED << folder, store, call, upName, snap >>

\* the uploader records its file with the category returned
Record(p) ==
    /\ pc[p] = "returned"
    /\ ret[p].kind = "return"
    /\ ret[p].value.category <= MaxUploadCategory
    /\ store' = Recorded(store, upName[p], ret[p].value.category)
    /\ pc' = [pc EXCEPT ![p] = "done"]
    /\ UNCHANGED << folder, call, upName, snap, ret >>

NextConc ==
    \/ Seed
    \/ \E p \in Procs : Query(p)
    \/ \E p \in Procs : Compute(p)
    \/ \E p \in Procs : Record(p)

SpecConc == InitUploads /\ [][NextConc]_vars

(***************************************************************************)
(* The vocabulary of the claims, stated on the inputs and independently of *)
(* the operators above.                                                    *)
(***************************************************************************)
\* the substring of s before its first ".": the longest dot-free prefix
BeforeFirstDot(s) ==
    LET k == SetMax({ n \in 0..Len(s) : \A i \in 1..n : s[i] # "." })
    IN  SubSeq(s, 1, k)

\* a completed call of list_versioned_files whose metadata query succeeded
Listed == call.op = "list_versioned_files" /\ call.query = "ok"

ListedOk == Listed /\ call.result.kind = "return"

\* the names list_versioned_files reported as siblings
Reported ==
    { call.result.value.first.list[i].file_name :
        i \in 1..Len(call.result.value.first.list) }

\* positions of the input records, other than fileName's own, that share
\* fileName's stem
MatchingAt(file_name, records) ==
    { i \in 1..Len(records) :
        /\ records[i].name # file_name
        /\ BeforeFirstDot(records[i].name) = BeforeFirstDot(file_name) }

\* the input records with fileName's own entries removed
OthersOf(file_name, records) ==
    { records[i] : i \in { j \in 1..Len(records) : records[j].name # file_name } }

\* the same, after duplicate filenames collapsed to the last one seen
RemainingOf(file_name, records) ==
    { records[i] : i \in { j \in 1..Len(records) :
        /\ records[j].name # file_name
        /\ \A k \in (j + 1)..Len(records) : records[k].name # records[j].name } }

CategoriesOf(rs) == { r.category : r \in rs }

HasDuplicateNames(records) ==
    \E i, j \in 1..Len(records) : i < j /\ records[i].name = records[j].name

(***************************************************************************)
(* C1: list_versioned_files reports as siblings exactly the record names,  *)
(* other than fileName, whose substring before the first "." equals that   *)
(* of fileName; the first component of the result is None if and only if   *)
(* there is no such name, and it is never an empty list.                   *)
(***************************************************************************)
C1_SiblingsExact ==
    ListedOk =>
        LET siblings == { call.records[i].name :
                            i \in MatchingAt(call.file_name, call.records) }
            first    == call.result.value.first
        IN  /\ Reported = siblings
            /\ first.isNone <=> siblings = {}
            /\ ~first.isNone => first.list # <<>>
            /\ Len(first.list) = Cardinality(Reported)

\* "a.1.p" is uploaded next to "a.p" and "b.p": only "a.p" is reported
C1_Witness ==
    /\ ListedOk
    /\ call.file_name = <<"a", ".", "1", ".", "p">>
    /\ \E i, j \in 1..Len(call.records) :
        /\ call.records[i].name = <<"a", ".", "p">>
        /\ call.records[j].name = <<"b", ".", "p">>
    /\ Reported = { <<"a", ".", "p">> }

(***************************************************************************)
(* C2 as stated: when no remaining record shares the candidate's stem, the *)
(* category is max(categories of all input records other than fileName's   *)
(* own, 0 if none) + 1.                                                    *)
(***************************************************************************)
C2_Original ==
    (ListedOk /\ MatchingAt(call.file_name, call.records) = {}) =>
        call.result.value.category =
            SetMax(CategoriesOf(OthersOf(call.file_name, call.records)) \cup {0}) + 1

(***************************************************************************)
(* C2 amended: when no remaining record shares the candidate's stem, the   *)
(* category is max(categories of the remaining records, 0 if none) + 1,    *)
(* where the remaining records are the input records after duplicate       *)
(* filenames collapsed to the last one seen and with fileName's own entry  *)
(* removed; with no records at all it is 1.                                *)
(***************************************************************************)
C2_DefaultCategory ==
    (ListedOk /\ MatchingAt(call.file_name, call.records) = {}) =>
        /\ call.result.value.category =
            SetMax(CategoriesOf(RemainingOf(call.file_name, call.records)) \cup {0}) + 1
        /\ call.records = <<>> => call.result.value.category = 1

\* a superseded duplicate holds the largest category and is not counted
C2_Witness ==
    /\ ListedOk
    /\ MatchingAt(call.file_name, call.records) = {}
    /\ HasDuplicateNames(call.records)
    /\ call.result.value.category <
        SetMax(CategoriesOf(OthersOf(call.file_name, call.records)) \cup {0}) + 1

(***************************************************************************)
(* C3 as stated: whenever several input records share the candidate's stem *)
(* with different categories, the returned category is the category of the *)
(* last matching record of the input sequence, also when the input holds   *)
(* the same filename more than once.                                       *)
(***************************************************************************)
SeveralMatches(file_name, records) ==
    \E i, j \in MatchingAt(file_name, records) :
        records[i].category # records[j].category

C3_Original ==
    (ListedOk /\ SeveralMatches(call.file_name, call.records)) =>
        call.result.value.category =
            call.records[SetMax(MatchingAt(call.file_name, call.records))].category

(***************************************************************************)
(* C3 amended: whenever several input records share the candidate's stem   *)
(* with different categories, the returned category is the last-seen       *)
(* category of the matching filename whose first occurrence in the input   *)
(* is the latest; when no filename occurs twice in the input this is the   *)
(* category of the last matching record of the input sequence.             *)
(***************************************************************************)
FirstAt(name, records) == SetMin({ i \in 1..Len(records) : records[i].name = name })

LastAt(name, records) == SetMax({ i \in 1..Len(records) : records[i].name = name })

C3_LastInsertedWins ==
    (ListedOk /\ SeveralMatches(call.file_name, call.records)) =>
        LET m      == MatchingAt(call.file_name, call.records)
            winner == CHOOSE i \in m :
                        \A j \in m : FirstAt(call.records[j].name, call.records)
                                        <= FirstAt(call.records[i].name, call.records)
        IN  /\ call.result.value.category =
                call.records[LastAt(call.records[winner].name, call.records)].category
            /\ ~HasDuplicateNames(call.records) =>
                call.result.value.category = call.records[SetMax(m)].category

\* a repeated sibling name keeps its first position: the last matching record
\* of the input does not decide
C3_Witness ==
    /\ ListedOk
    /\ SeveralMatches(call.file_name, call.records)
    /\ HasDuplicateNames(call.records)
    /\ call.result.value.category #
        call.records[SetMax(MatchingAt(call.file_name, call.records))].category

(***************************************************************************)
(* C4: if fileName is itself among the records, it is never among the      *)
(* reported siblings and its own entries have no effect on the outcome:    *)
(* the call ends as it does on the records without them.                   *)
(***************************************************************************)
WithoutName(file_name, records) == SelectSeq(records, LAMBDA r : r.name # file_name)

C4_NoSelfMatch ==
    (Listed /\ \E i \in 1..Len(call.records) : call.records[i].name = call.file_name) =>
        /\ call.result.kind = "return" => call.file_name \notin Reported
        /\ call.result =
            VersionedFilesOf(call.file_name,
                             WithoutName(call.file_name, call.records), call.folder)

\* fileName is the only record of its family: a new family, not its own category
C4_Witness ==
    /\ ListedOk
    /\ call.file_name = <<"b", ".", "p">>
    /\ call.records = << [name |-> <<"b", ".", "p">>, category |-> 2] >>
    /\ call.result.value.first.isNone
    /\ call.result.value.category = 1

(***************************************************************************)
(* C5 as stated: whenever the first result component is None, the returned *)
(* category equals max(categories of all existing records) + 1 and is      *)
(* strictly greater than the category of every record, including a record  *)
(* for fileName itself.                                                    *)
(***************************************************************************)
AllRecords(records) == { records[i] : i \in 1..Len(records) }

C5_Original ==
    (ListedOk /\ call.result.value.first.isNone) =>
        /\ call.result.value.category =
            SetMax(CategoriesOf(AllRecords(call.records)) \cup {0}) + 1
        /\ \A r \in AllRecords(call.records) : r.category < call.result.value.category

(***************************************************************************)
(* C5 amended: whenever the first result component is None, the returned   *)
(* category is strictly greater than the category of every remaining       *)
(* record (the records after duplicate filenames collapsed to the last one *)
(* seen and without fileName's own), and is one more than the largest of   *)
(* them; it may be no greater than the category of fileName's own record.  *)
(***************************************************************************)
C5_AboveRemaining ==
    (ListedOk /\ call.result.value.first.isNone) =>
        LET remaining == RemainingOf(call.file_name, call.records)
            category  == call.result.value.category
        IN  /\ \A r \in remaining : r.category < category
            /\ category - 1 \in CategoriesOf(remaining) \cup {0}

\* the new family's category is not above fileName's own record
C5_Witness ==
    /\ ListedOk
    /\ call.result.value.first.isNone
    /\ \E i \in 1..Len(call.records) :
        /\ call.records[i].name = call.file_name
        /\ call.records[i].category >= call.result.value.category
    /\ RemainingOf(call.file_name, call.records) # {}

(***************************************************************************)
(* C7 as stated: has_file_in_destination_folder reports a conflict         *)
(* whenever some file in the folder has the same stem (text before the     *)
(* first ".") as fileName or the same full name, and nothing when no file  *)
(* in the folder has that stem.                                            *)
(***************************************************************************)
Searched ==
    call.op = "has_file_in_destination_folder" /\ call.result.kind = "return"

C7_Original ==
    Searched =>
        LET same == \E name \in call.folder.files :
                        \/ BeforeFirstDot(name) = BeforeFirstDot(call.file_name)
                        \/ name = call.file_name
        IN  /\ same => call.result.value = "already exists"
            /\ ~same => call.result.value = "None"

(***************************************************************************)
(* C7 amended: has_file_in_destination_folder reports a conflict exactly   *)
(* when some file in the folder is named fileName, or is named fileName    *)
(* followed by one extension ("." and one or more characters other than    *)
(* "."); otherwise it returns None.  A file that only shares fileName's    *)
(* text before the first "." is no conflict.                               *)
(***************************************************************************)
IsNamePlusExtension(name, file_name) ==
    /\ Len(file_name) >= 1
    /\ Len(name) >= Len(file_name) + 2
    /\ SubSeq(name, 1, Len(file_name)) = file_name
    /\ name[Len(file_name) + 1] = "."
    /\ \A i \in (Len(file_name) + 2)..Len(name) : name[i] # "."

C7_ExactOrPlusExtension ==
    Searched =>
        (call.result.value = "already exists" <=>
            \E name \in call.folder.files :
                name = call.file_name \/ IsNamePlusExtension(name, call.file_name))

\* the folder holds a file of the same family under another name: no conflict
C7_Witness ==
    /\ Searched
    /\ call.file_name = <<"a", ".", "p">>
    /\ <<"a", ".", "1", ".", "p">> \in call.folder.files
    /\ call.result.value = "None"

(***************************************************************************)
(* C8: every failure of a public method reaches the caller as an           *)
(* HTTPException with status 500; no other exception type escapes.         *)
(***************************************************************************)
C8_OnlyInternalError ==
    (call # NoCall /\ call.result.kind = "raise") =>
        call.result.type = "HTTPException" /\ call.result.status = InternalError

(***************************************************************************)
(* C6: extract_version takes s, the lower-cased filename without its last  *)
(* "." and what follows it, and returns the longest suffix of s of the     *)
(* form digits ("." digits)+ if there is one; otherwise the trailing run   *)
(* of digits of s if s ends with a whitespace character or "." followed by *)
(* one or more digits; otherwise "0".                                      *)
(***************************************************************************)
AllDigits(t) == Len(t) >= 1 /\ \A i \in 1..Len(t) : t[i] \in Digits

\* t is digits ("." digits)+
RECURSIVE IsVersionForm(_)
IsVersionForm(t) ==
    \E k \in 1..(Len(t) - 2) :
        /\ AllDigits(SubSeq(t, 1, k))
        /\ t[k + 1] = "."
        /\ LET rest == SubSeq(t, k + 2, Len(t))
           IN  AllDigits(rest) \/ IsVersionForm(rest)

LowerCased(s) == [i \in 1..Len(s) |-> IF s[i] = "A" THEN "a" ELSE s[i]]

WithoutExtension(s) ==
    IF \A i \in 1..Len(s) : s[i] # "." THEN s
    ELSE SubSeq(s, 1, (CHOOSE i \in 1..Len(s) :
                        s[i] = "." /\ \A j \in (i + 1)..Len(s) : s[j] # ".") - 1)

ClaimedVersion(filename) ==
    LET s        == LowerCased(WithoutExtension(filename))
        suffixes == { p \in 1..Len(s) : IsVersionForm(SubSeq(s, p, Len(s))) }
        runs     == { k \in 1..(Len(s) - 1) :
                        /\ AllDigits(SubSeq(s, Len(s) - k + 1, Len(s)))
                        /\ s[Len(s) - k] \in Whitespace \cup {"."} }
    IN  IF suffixes # {} THEN SubSeq(s, SetMin(suffixes), Len(s))
        ELSE IF runs # {} THEN SubSeq(s, Len(s) - SetMax(runs) + 1, Len(s))
        ELSE <<"0">>

C6_VersionAsClaimed ==
    call.op = "extract_version" =>
        call.result.value = ClaimedVersion(call.file_name)

(***************************************************************************)
(* C9: when two uploads of filenames with different stems, neither sharing *)
(* its stem with any existing record, both read the metadata store before  *)
(* either upload's record has been inserted, both calls return the same    *)
(* new category, and once both are recorded two different families share   *)
(* one category.                                                           *)
(***************************************************************************)
Racing(p, q) ==
    /\ p # q
    /\ pc[p] \in { "returned", "done" }
    /\ pc[q] \in { "returned", "done" }
    /\ snap[p].after = {} /\ snap[q].after = {}
    /\ BeforeFirstDot(upName[p]) # BeforeFirstDot(upName[q])
    /\ \A r \in snap[p].records \cup snap[q].records :
        /\ BeforeFirstDot(r.name) # BeforeFirstDot(upName[p])
        /\ BeforeFirstDot(r.name) # BeforeFirstDot(upName[q])

C9_RaceSharesCategory ==
    \A p, q \in Procs :
        Racing(p, q) =>
            /\ ret[p].kind = "return" /\ ret[q].kind = "return"
            /\ ret[p].value.first.isNone /\ ret[q].value.first.isNone
            /\ ret[p].value.category = ret[q].value.category
            /\ (pc[p] = "done" /\ pc[q] = "done") =>
                \E c \in 1..MaxUploadCategory :
                    /\ [name |-> upName[p], category |-> c] \in store
                    /\ [name |-> upName[q], category |-> c] \in store

\* both uploads are recorded, next to an older record of a third family
C9_Witness ==
    \E p, q \in Procs :
        /\ Racing(p, q)
        /\ pc[p] = "done" /\ pc[q] = "done"
        /\ snap[p].records # {}
        /\ \E r1, r2 \in store :
            /\ r1.name = upName[p] /\ r2.name = upName[q]
            /\ r1.category = r2.category

(***************************************************************************)
(* C10: starting from an empty store, after any sequence of strictly       *)
(* sequential uploads (re-uploads included), any two records of the store  *)
(* have the same category if and only if their filenames have the same     *)
(* stem before the first ".".                                              *)
(***************************************************************************)
C10_CategoryIffFamily ==
    \A r1, r2 \in store :
        r1.category = r2.category <=>
            BeforeFirstDot(r1.name) = BeforeFirstDot(r2.name)

\* a re-upload of a recorded name into a store of two families
C10_Witness ==
    /\ call.op = "upload"
    /\ call.known
    /\ \E r1, r2, r3 \in store :
        /\ r1.name # r2.name
        /\ BeforeFirstDot(r1.name) = BeforeFirstDot(r2.name)
        /\ BeforeFirstDot(r1.name) # BeforeFirstDot(r3.name)

====
